---- MODULE Spec2Model ----
(***************************************************************************)
(* Gaussian-process regression core of glimix/lim.                         *)
(*                                                                         *)
(* Two classes named RegGP exist in the repository,                        *)
(*   lim/inference/regression.py   (impl = "inference")                    *)
(*   lim/gp/regression.py          (impl = "gp")                           *)
(* which differ in learn() (the gp class installs value/gradient as        *)
(* instance attributes) and in predict() (the gp class binds and unbinds   *)
(* the 'learn_predict' dataset itself).  Both are modelled; the variable   *)
(* gp records which class the current instance was constructed from.      *)
(*                                                                         *)
(* Numbers: numpy floats are modelled by exact rationals <<num, den>>      *)
(* (den > 0, lowest terms).  Rounding is abstracted away; log|K| is kept   *)
(* symbolically by its argument |det K|.                                   *)
(***************************************************************************)
EXTENDS Integers, Sequences, FiniteSets, TLC

----------------------------------------------------------------------------
(* Bounds of the model *)

\* the mean offset ranges over 0 .. MaxOffset
MaxOffset == 1

\* the values the scale of the LinearCov summand takes
LinearScales == {0, 1}

\* the values the scale of the EyeCov summand takes
EyeScales == {0 - 1, 1}

\* the observation vectors a RegGP is constructed with
Ys == {<<1, 2>>}

\* the item sequences bound as data
XLearn == <<1, 2>>

XPredict == <<3>>

XOther == <<0>>

----------------------------------------------------------------------------
(* Exact rational arithmetic standing for numpy's float arithmetic *)

Abs(i) == IF i < 0 THEN 0 - i ELSE i

Sgn(i) == IF i < 0 THEN 0 - 1 ELSE IF i = 0 THEN 0 ELSE 1

RECURSIVE Gcd(_, _)
Gcd(a, b) == IF b = 0 THEN a ELSE Gcd(b, a % b)

Rat(n, d) ==
    LET g == Gcd(Abs(n), Abs(d))
        s == Sgn(d)
    IN  <<(s * n) \div g, (s * d) \div g>>

R(i) == <<i, 1>>

\* (two integers need no reduction to lowest terms)
BothInt(p, q) == p[2] = 1 /\ q[2] = 1

RAdd(p, q) ==
    IF BothInt(p, q) THEN <<p[1] + q[1], 1>>
    ELSE Rat(p[1] * q[2] + q[1] * p[2], p[2] * q[2])

RSub(p, q) ==
    IF BothInt(p, q) THEN <<p[1] - q[1], 1>>
    ELSE Rat(p[1] * q[2] - q[1] * p[2], p[2] * q[2])

RMul(p, q) ==
    IF BothInt(p, q) THEN <<p[1] * q[1], 1>>
    ELSE Rat(p[1] * q[1], p[2] * q[2])

\* q is never zero where this is used
RDiv(p, q) == Rat(p[1] * q[2], p[2] * q[1])

RNeg(p) == <<0 - p[1], p[2]>>

RAbs(p) == <<Abs(p[1]), p[2]>>

RSgn(p) == Sgn(p[1])

RECURSIVE RSum(_)
RSum(v) == IF v = <<>> THEN R(0) ELSE RAdd(v[1], RSum(Tail(v)))

----------------------------------------------------------------------------
(* Results of a call: a returned value or a raised exception *)

Ok(v) == [ok |-> TRUE, err |-> "", val |-> v]

Err(e) == [ok |-> FALSE, err |-> e, val |-> <<>>]

----------------------------------------------------------------------------
(* numpy vectors and matrices.  A vector is a sequence of rationals, a     *)
(* matrix a sequence of rows.                                              *)

NRows(A) == Len(A)

NCols(A) == IF A = <<>> THEN 0 ELSE Len(A[1])

\* numpy broadcasting of two 1-d arrays: equal lengths, or one of length 1
Broadcastable(u, v) == Len(u) = Len(v) \/ Len(u) = 1 \/ Len(v) = 1

BLen(u, v) == IF Len(u) >= Len(v) THEN Len(u) ELSE Len(v)

BAt(u, i) == IF Len(u) = 1 THEN u[1] ELSE u[i]

\* u + v
VecAdd(u, v) ==
    IF Broadcastable(u, v)
    THEN Ok([i \in 1..BLen(u, v) |-> RAdd(BAt(u, i), BAt(v, i))])
    ELSE Err("ValueError")

\* u - v
VecSub(u, v) ==
    IF Broadcastable(u, v)
    THEN Ok([i \in 1..BLen(u, v) |-> RSub(BAt(u, i), BAt(v, i))])
    ELSE Err("ValueError")

\* u.dot(v) for 1-d arrays
Dot(u, v) ==
    IF Len(u) = Len(v)
    THEN Ok(RSum([i \in 1..Len(u) |-> RMul(u[i], v[i])]))
    ELSE Err("ValueError")

\* A.dot(v) for a 2-d array and a 1-d array
MatVec(A, v) ==
    IF NCols(A) = Len(v)
    THEN Ok([i \in 1..NRows(A) |-> RSum([j \in 1..Len(v) |-> RMul(A[i][j], v[j])])])
    ELSE Err("ValueError")

\* A.T
Transpose(A) == [j \in 1..NCols(A) |-> [i \in 1..NRows(A) |-> A[i][j]]]

Column(A, j) == [i \in 1..NRows(A) |-> A[i][j]]

\* A.diagonal().sum()
DiagSum(A) ==
    LET n == IF NRows(A) <= NCols(A) THEN NRows(A) ELSE NCols(A)
    IN  RSum([i \in 1..n |-> A[i][i]])

\* the matrix A without row 1 and column j
Minor(A, j) ==
    [i \in 1..(NRows(A) - 1) |->
        [k \in 1..(NCols(A) - 1) |-> IF k < j THEN A[i + 1][k] ELSE A[i + 1][k + 1]]]

RECURSIVE Det(_)
Det(A) ==
    IF NRows(A) = 0 THEN R(1)
    ELSE IF NRows(A) = 1 THEN A[1][1]
    ELSE RSum([j \in 1..NCols(A) |->
                 LET c == RMul(A[1][j], Det(Minor(A, j)))
                 IN  IF j % 2 = 1 THEN c ELSE RNeg(c)])

ReplaceColumn(A, j, b) ==
    [i \in 1..NRows(A) |-> [k \in 1..NCols(A) |-> IF k = j THEN b[i] ELSE A[i][k]]]

IsSquare(A) == NRows(A) = NCols(A) /\ NRows(A) > 0

\* numpy.linalg.solve(K, b), b a 1-d array: the exact solution of K x = b
\* (Cramer's rule stands for LAPACK's LU solve)
SolveVec(K, b) ==
    IF ~IsSquare(K) THEN Err("LinAlgError")
    ELSE IF Len(b) # NRows(K) THEN Err("ValueError")
    ELSE LET d == Det(K)
         IN  IF d = R(0) THEN Err("LinAlgError")
             ELSE Ok([j \in 1..NRows(K) |-> RDiv(Det(ReplaceColumn(K, j, b)), d)])

\* numpy.linalg.solve(K, B), B a 2-d array: solved column by column
SolveMat(K, B) ==
    IF ~IsSquare(K) THEN Err("LinAlgError")
    ELSE IF NRows(B) # NRows(K) THEN Err("ValueError")
    ELSE LET d == Det(K)
         IN  IF d = R(0) THEN Err("LinAlgError")
             ELSE Ok(Transpose([j \in 1..NCols(B) |->
                        [i \in 1..NRows(K) |->
                            RDiv(Det(ReplaceColumn(K, i, Column(B, j))), d)]]))

\* numpy.linalg.slogdet(K): <<sign, |det|>>; the logarithm of the second
\* component is the logdet the code reads
SLogDet(K) ==
    IF ~IsSquare(K) THEN Err("LinAlgError")
    ELSE Ok(<<R(RSgn(Det(K))), RAbs(Det(K))>>)

----------------------------------------------------------------------------
(* The mean and covariance function objects the GP core consumes.  Their   *)
(* classes (OffsetMean, LinearCov, EyeCov, SumCov, Variables) are used by  *)
(* the tests; they are modelled from the function contract: set_data /     *)
(* unset_data / data(purpose).value() / data(purpose).gradient() /         *)
(* variables().select(fixed=False).                                        *)

Purposes == {"sample", "learn", "predict", "learn_predict"}

\* what data(purpose) holds when nothing is bound under the purpose
Unbound == <<>>

Ones(n) == [i \in 1..n |-> R(1)]

\* variables().select(fixed=False): the free variables, in declared order
select_free(vars) == SelectSeq(vars, LAMBDA v : ~v.fixed)

\* OffsetMean: one hyperparameter 'offset'; set_data(n) binds a sample size
MeanBound(m, p) == m.data[p] # Unbound

\* mean.data(p).value() = offset * ones(n)
mean_value(m, p) ==
    IF ~MeanBound(m, p) THEN Err("MissingData")
    ELSE Ok([i \in 1..m.data[p][1] |-> R(m.vars[1].value)])

\* mean.data(p).gradient(): one vector per free hyperparameter
mean_gradient(m, p) ==
    IF ~MeanBound(m, p) THEN Err("MissingData")
    ELSE Ok([k \in 1..Len(select_free(m.vars)) |-> Ones(m.data[p][1])])

\* SumCov([LinearCov, EyeCov]): hyperparameters 'scale' of each summand.
\* Bound data is the pair raw = <<X0, X1>> of item sequences; an item is
\* its (one-dimensional) feature for LinearCov and its identity for EyeCov.
CovBound(c, p) == c.data[p] # Unbound

\* the kernel of summand k between two items: LinearCov the product of the
\* features, EyeCov the identity of the items
Kernel(k, u, v) ==
    IF k = 1 THEN R(u * v)
    ELSE IF u = v THEN R(1) ELSE R(0)

\* the derivative of the covariance with respect to hyperparameter k
Basis(k, raw) ==
    [a \in 1..Len(raw[1]) |->
        [b \in 1..Len(raw[2]) |-> Kernel(k, raw[1][a], raw[2][b])]]

\* cov.data(p).value() = sum_k scale_k * Basis_k
cov_value(c, p) ==
    IF ~CovBound(c, p) THEN Err("MissingData")
    ELSE LET raw == c.data[p]
         IN  Ok([a \in 1..Len(raw[1]) |->
                   [b \in 1..Len(raw[2]) |->
                      RSum([k \in 1..Len(c.vars) |->
                              RMul(R(c.vars[k].value),
                                   Kernel(k, raw[1][a], raw[2][b]))])]])

FreeIndex(vars) == SelectSeq([k \in 1..Len(vars) |-> k], LAMBDA k : ~vars[k].fixed)

\* cov.data(p).gradient(): one matrix per free hyperparameter
cov_gradient(c, p) ==
    IF ~CovBound(c, p) THEN Err("MissingData")
    ELSE Ok([j \in 1..Len(FreeIndex(c.vars)) |-> Basis(FreeIndex(c.vars)[j], c.data[p])])

\* cov.set_data(raw, purpose=p) and cov.unset_data(purpose=p)
cov_set_data(c, raw, p) == [c EXCEPT !.data[p] = raw]

cov_unset_data(c, p) == [c EXCEPT !.data[p] = Unbound]

\* merge_variables(dict(mean=v0, cov=v1)): the owner-qualified names, all
\* mean variables first, then all covariance variables
merge_variables(v0, v1) ==
    [k \in 1..Len(v0) |-> <<"mean", v0[k].name>>] \o
    [k \in 1..Len(v1) |-> <<"cov", v1[k].name>>]

----------------------------------------------------------------------------
(* class RegGP: the operations as functions of the observation vector y    *)
(* and the mean and covariance objects the instance refers to              *)

\* RegGP._Kim
Kim(y, m, c) ==
    LET mv == mean_value(m, "learn")
        K  == cov_value(c, "learn")
    IN  IF ~mv.ok THEN mv
        ELSE IF ~K.ok THEN K
        ELSE LET ym == VecSub(y, mv.val)
             IN  IF ~ym.ok THEN ym ELSE SolveVec(K.val, ym.val)

\* RegGP.lml.  The value returned, -(logdet + ym.dot(Kiym) + n*log(2*pi))/2,
\* is represented by <<|det K|, ym.dot(Kiym), n>>.
lml(y, m, c) ==
    LET Kiym == Kim(y, m, c)
    IN  IF ~Kiym.ok THEN Kiym
        ELSE LET ym == VecSub(y, mean_value(m, "learn").val)
                 sl == SLogDet(cov_value(c, "learn").val)
                 q  == Dot(ym.val, Kiym.val)
             IN  IF sl.val[1] # R(1) THEN Err("AssertionError")
                 ELSE IF ~q.ok THEN q
                 ELSE Ok(<<sl.val[2], q.val, R(Len(y))>>)

\* the first exception raised while building a list, else the list
Collect(rs) ==
    IF \E i \in 1..Len(rs) : ~rs[i].ok
    THEN rs[CHOOSE i \in 1..Len(rs) : ~rs[i].ok /\ \A j \in 1..(i - 1) : rs[j].ok]
    ELSE Ok([i \in 1..Len(rs) |-> rs[i].val])

\* RegGP._lml_gradient_mean
lml_gradient_mean(y, m, c) ==
    LET vars_ == select_free(m.vars)
        Kiym  == Kim(y, m, c)
    IN  IF ~Kiym.ok THEN Kiym
        ELSE Collect([i \in 1..Len(vars_) |->
                        Dot(mean_gradient(m, "learn").val[i], Kiym.val)])

\* one entry of the loop of RegGP._lml_gradient_cov, before the halving
CovEntry(K, dK, Kiym) ==
    LET tr == SolveMat(K, dK)
        dKk == MatVec(dK, Kiym)
    IN  IF ~tr.ok THEN tr
        ELSE IF ~dKk.ok THEN dKk
        ELSE LET q == Dot(Kiym, dKk.val)
             IN  IF ~q.ok THEN q
                 ELSE Ok(RAdd(RNeg(DiagSum(tr.val)), q.val))

\* _lml_gradient_cov without the final halving of the entries
lml_gradient_cov_unhalved(y, m, c) ==
    LET vars_ == select_free(c.vars)
        K     == cov_value(c, "learn")
        Kiym  == Kim(y, m, c)
    IN  IF ~K.ok THEN K
        ELSE IF ~Kiym.ok THEN Kiym
        ELSE Collect([i \in 1..Len(vars_) |->
                        CovEntry(K.val, cov_gradient(c, "learn").val[i], Kiym.val)])

\* RegGP._lml_gradient_cov
lml_gradient_cov(y, m, c) ==
    LET vars_ == select_free(c.vars)
        K     == cov_value(c, "learn")
        Kiym  == Kim(y, m, c)
    IN  IF ~K.ok THEN K
        ELSE IF ~Kiym.ok THEN Kiym
        ELSE LET g == Collect([i \in 1..Len(vars_) |->
                                 CovEntry(K.val, cov_gradient(c, "learn").val[i], Kiym.val)])
             IN  IF ~g.ok THEN g
                 ELSE Ok([i \in 1..Len(g.val) |-> RDiv(g.val[i], R(2))])

\* lml_gradient returning grad_mean + grad_cov
lml_gradient_mean_first(y, m, c) ==
    LET grad_cov  == lml_gradient_cov(y, m, c)
        grad_mean == lml_gradient_mean(y, m, c)
    IN  IF ~grad_cov.ok THEN grad_cov
        ELSE IF ~grad_mean.ok THEN grad_mean
        ELSE Ok(grad_mean.val \o grad_cov.val)

\* RegGP.lml_gradient
lml_gradient(y, m, c) ==
    LET grad_cov  == lml_gradient_cov(y, m, c)
        grad_mean == lml_gradient_mean(y, m, c)
    IN  IF ~grad_cov.ok THEN grad_cov
        ELSE IF ~grad_mean.ok THEN grad_mean
        ELSE Ok(grad_cov.val \o grad_mean.val)

\* variables() without the restriction to the free variables
variables_all(m, c) ==
    merge_variables(m.vars, c.vars)

\* RegGP.variables
variables(m, c) ==
    LET v0 == select_free(m.vars)
        v1 == select_free(c.vars)
    IN  merge_variables(v0, v1)

\* learn without the branch for exactly one free variable
learn_dispatch_no_scalar(n) ==
    IF n = 0 THEN "none" ELSE "array"

\* the branch of RegGP.learn taken with n free variables
learn_dispatch(n) ==
    IF n = 0 THEN "none"
    ELSE IF n = 1 THEN "scalar"
    ELSE "array"

\* RegGP.predict of lim/inference/regression.py: the value returned and the
\* covariance object as the call leaves it
predict_inference(y, m, c) ==
    LET m_p  == mean_value(m, "predict")
        kim  == Kim(y, m, c)
        K_pp == cov_value(c, "predict")
        K_lp == cov_value(c, "learn_predict")
    IN  IF ~m_p.ok THEN [res |-> m_p, cov |-> c]
        ELSE IF ~kim.ok THEN [res |-> kim, cov |-> c]
        ELSE IF ~K_pp.ok THEN [res |-> K_pp, cov |-> c]
        ELSE IF ~K_lp.ok THEN [res |-> K_lp, cov |-> c]
        ELSE LET t == MatVec(Transpose(K_lp.val), kim.val)
             IN  IF ~t.ok THEN [res |-> t, cov |-> c]
                 ELSE [res |-> VecAdd(m_p.val, t.val), cov |-> c]

\* predict of lim/gp/regression.py without its set_data call: it reads the
\* 'learn_predict' data the caller bound and still unbinds it
predict_gp_no_set_data(y, m, c) ==
    LET m_p  == mean_value(m, "predict")
        kim  == Kim(y, m, c)
        K_pp == cov_value(c, "predict")
        K_lp == cov_value(c, "learn_predict")
    IN  IF ~m_p.ok THEN [res |-> m_p, cov |-> c]
        ELSE IF ~kim.ok THEN [res |-> kim, cov |-> c]
        ELSE IF ~K_pp.ok THEN [res |-> K_pp, cov |-> c]
        ELSE IF ~K_lp.ok THEN [res |-> K_lp, cov |-> c]
        ELSE LET t == MatVec(Transpose(K_lp.val), kim.val)
             IN  IF ~t.ok THEN [res |-> t, cov |-> c]
                 ELSE LET est_mean == VecAdd(m_p.val, t.val)
                      IN  IF ~est_mean.ok THEN [res |-> est_mean, cov |-> c]
                          ELSE [res |-> est_mean,
                                cov |-> cov_unset_data(c, "learn_predict")]

\* RegGP.predict of lim/gp/regression.py
predict_gp(y, m, c) ==
    LET m_p  == mean_value(m, "predict")
        kim  == Kim(y, m, c)
        K_pp == cov_value(c, "predict")
        c1   == cov_set_data(c, <<c.data["learn"][1], c.data["predict"][1]>>,
                             "learn_predict")
        K_lp == cov_value(c1, "learn_predict")
    IN  IF ~m_p.ok THEN [res |-> m_p, cov |-> c]
        ELSE IF ~kim.ok THEN [res |-> kim, cov |-> c]
        ELSE IF ~K_pp.ok THEN [res |-> K_pp, cov |-> c]
        ELSE LET t == MatVec(Transpose(K_lp.val), kim.val)
             IN  IF ~t.ok THEN [res |-> t, cov |-> c1]
                 ELSE LET est_mean == VecAdd(m_p.val, t.val)
                      IN  IF ~est_mean.ok THEN [res |-> est_mean, cov |-> c1]
                          ELSE [res |-> est_mean,
                                cov |-> cov_unset_data(c1, "learn_predict")]

----------------------------------------------------------------------------
(* The objects the caller can build, and the calls on them tabulated: each *)
(* table entry is the result of the call on that instance, computed once.  *)

ToVec(y) == [i \in 1..Len(y) |-> R(y[i])]

XSample == XLearn \o XPredict

\* the bindings the caller makes with mean.set_data(n, purpose=p)
MeanMenu == {<<1, "learn">>, <<Len(XLearn), "learn">>, <<Len(XPredict), "predict">>}

\* the bindings the caller makes with cov.set_data((X0, X1), purpose=p)
CovMenu == {<<XPredict, XPredict, "predict">>,
            <<XLearn, XPredict, "learn_predict">>,
            <<XLearn, XOther, "learn_predict">>}

\* the purposes the caller unbinds
UnsetMenu == {"predict", "learn_predict"}

\* the data a mean object can hold under purpose p
MeanData(p) ==
    (IF p = "sample" THEN {<<Len(XSample)>>}
     ELSE IF p = "learn" THEN {<<Len(XLearn)>>}
     ELSE {Unbound})
    \cup {<<b[1]>> : b \in {b \in MeanMenu : b[2] = p}}

\* the data a covariance object can hold under purpose p
CovData(p) ==
    (IF p = "sample" THEN {<<XSample, XSample>>}
     ELSE IF p = "learn" THEN {<<XLearn, XLearn>>}
     ELSE {Unbound})
    \cup {<<b[1], b[2]>> : b \in {b \in CovMenu : b[3] = p}}

MeanObjects ==
    {[vars |-> <<[name |-> "offset", value |-> v, fixed |-> f]>>, data |-> d] :
        v \in 0..MaxOffset, f \in BOOLEAN,
        d \in {d \in [Purposes -> UNION {MeanData(p) : p \in Purposes}] :
                 \A p \in Purposes : d[p] \in MeanData(p)}}

CovObjects ==
    {[vars |-> <<[name |-> "linear", value |-> v1, fixed |-> f1],
                 [name |-> "eye", value |-> v2, fixed |-> f2]>>, data |-> d] :
        v1 \in LinearScales, v2 \in EyeScales, f1 \in BOOLEAN, f2 \in BOOLEAN,
        d \in {d \in [Purposes -> UNION {CovData(p) : p \in Purposes}] :
                 \A p \in Purposes : d[p] \in CovData(p)}}

YVecs == {ToVec(y) : y \in Ys}

\* gp.lml() for the instance RegGP(y, m, c)
LmlOf == [y \in YVecs, m \in MeanObjects, c \in CovObjects |-> lml(y, m, c)]

\* gp.lml_gradient()
LmlGradientOf ==
    [y \in YVecs, m \in MeanObjects, c \in CovObjects |-> lml_gradient(y, m, c)]

\* gp.predict(), by class
PredictOf ==
    [impl \in {"inference", "gp"}, y \in YVecs, m \in MeanObjects, c \in CovObjects |->
        IF impl = "gp" THEN predict_gp(y, m, c) ELSE predict_inference(y, m, c)]

\* RegGP.value and RegGP.gradient: the objective the optimizer queries
\* value() answering from the point the mean object was created at
value_first_point(y, m, c) == LmlOf[y, [m EXCEPT !.vars[1].value = 0], c]

value(y, m, c) == LmlOf[y, m, c]

gradient(y, m, c) == LmlGradientOf[y, m, c]

----------------------------------------------------------------------------
(* The optimizers lim.func.optimize.brent.maximize and .tnc.maximize,      *)
(* modelled from the optimizer contract: the maximizer assigns proposed    *)
(* points to the free hyperparameters (never to a fixed one), evaluates    *)
(* the objective there, and returns with the hyperparameters at the point  *)
(* where it stopped; an exception of the objective propagates.             *)

\* the values a hyperparameter of the given owner and name ranges over
Domain(owner, name) ==
    IF owner = "mean" THEN 0..MaxOffset
    ELSE IF name = "linear" THEN LinearScales
    ELSE EyeScales

\* the values the optimizer may leave in variable v, given the variables
\* the objective exposes through variables(): any of its domain when v is
\* among them, its own value when it is not
Reach(owner, v, exposed) ==
    IF \E k \in 1..Len(exposed) : exposed[k] = <<owner, v.name>>
    THEN Domain(owner, v.name)
    ELSE {v.value}

\* the variable sequences that differ from vars in exposed variables only
Points(owner, vars, exposed) ==
    IF Len(vars) = 1
    THEN {[vars EXCEPT ![1].value = a] : a \in Reach(owner, vars[1], exposed)}
    ELSE {[vars EXCEPT ![1].value = a, ![2].value = b] :
            a \in Reach(owner, vars[1], exposed),
            b \in Reach(owner, vars[2], exposed)}

\* maximize_scalar(objective): uses value() alone
maximize_scalar(y, m, c) ==
    {[mean |-> [m EXCEPT !.vars = mv], cov |-> [c EXCEPT !.vars = cv],
      res  |-> LET v == value(y, [m EXCEPT !.vars = mv], [c EXCEPT !.vars = cv])
               IN  IF v.ok THEN Ok(<<>>) ELSE v] :
        mv \in Points("mean", m.vars, variables(m, c)),
        cv \in Points("cov", c.vars, variables(m, c))}

\* maximize_array(objective): uses value() and gradient()
maximize_array(y, m, c) ==
    {[mean |-> [m EXCEPT !.vars = mv], cov |-> [c EXCEPT !.vars = cv],
      res  |-> LET v == value(y, [m EXCEPT !.vars = mv], [c EXCEPT !.vars = cv])
                   g == gradient(y, [m EXCEPT !.vars = mv], [c EXCEPT !.vars = cv])
               IN  IF ~v.ok THEN v ELSE IF ~g.ok THEN g ELSE Ok(<<>>)] :
        mv \in Points("mean", m.vars, variables(m, c)),
        cv \in Points("cov", c.vars, variables(m, c))}

----------------------------------------------------------------------------
(* The state: the caller's mean and covariance objects, the RegGP instance *)
(* built around them, and the outcome of the last call                     *)

VARIABLES
    mean,   \* [vars, data]: the mean function object
    cov,    \* [vars, data]: the covariance function object
    gp,     \* [impl, y, installed]: the RegGP instance (impl "none": not yet built)
    last    \* the last call: its name, its outcome, the maximizers it invoked

vars == <<mean, cov, gp, last>>

\* a call by the caller on the mean or covariance object itself
Caller == [op |-> "caller", ok |-> TRUE, err |-> "", val |-> <<>>, rep |-> FALSE,
           scalar |-> 0, array |-> 0]

Call(op, res, ns, na) ==
    [op |-> op, ok |-> res.ok, err |-> res.err, val |-> res.val,
     rep |-> (op = "predict" /\ last.op = "predict" /\ last.ok),
     scalar |-> ns, array |-> na]

\* the objects after the caller has created them and bound the sample and
\* learn data
Init ==
    /\ mean = [vars |-> <<[name |-> "offset", value |-> 0, fixed |-> FALSE]>>,
               data |-> [p \in Purposes |->
                           IF p = "sample" THEN <<Len(XSample)>>
                           ELSE IF p = "learn" THEN <<Len(XLearn)>>
                           ELSE Unbound]]
    /\ cov = [vars |-> <<[name |-> "linear", value |-> 1, fixed |-> FALSE],
                         [name |-> "eye", value |-> 1, fixed |-> FALSE]>>,
              data |-> [p \in Purposes |->
                          IF p = "sample" THEN <<XSample, XSample>>
                          ELSE IF p = "learn" THEN <<XLearn, XLearn>>
                          ELSE Unbound]]
    /\ gp = [impl |-> "none", y |-> <<>>, installed |-> FALSE]
    /\ last = Caller

\* mean.offset = v
MeanAssign(v) ==
    /\ mean' = [mean EXCEPT !.vars[1].value = v]
    /\ last' = Caller
    /\ UNCHANGED <<cov, gp>>

\* mean.fix('offset')
MeanFix ==
    /\ mean' = [mean EXCEPT !.vars[1].fixed = TRUE]
    /\ last' = Caller
    /\ UNCHANGED <<cov, gp>>

\* mean.set_data(n, purpose=p)
MeanSetData(n, p) ==
    /\ mean' = [mean EXCEPT !.data[p] = <<n>>]
    /\ last' = Caller
    /\ UNCHANGED <<cov, gp>>

\* mean.unset_data(purpose=p)
MeanUnsetData(p) ==
    /\ MeanBound(mean, p)
    /\ mean' = [mean EXCEPT !.data[p] = Unbound]
    /\ last' = Caller
    /\ UNCHANGED <<cov, gp>>

\* cov_left.scale = v, cov_right.scale = v
CovAssign(k, v) ==
    /\ cov' = [cov EXCEPT !.vars[k].value = v]
    /\ last' = Caller
    /\ UNCHANGED <<mean, gp>>

\* cov.fix('scale')
CovFix(k) ==
    /\ cov' = [cov EXCEPT !.vars[k].fixed = TRUE]
    /\ last' = Caller
    /\ UNCHANGED <<mean, gp>>

\* cov.set_data((X0, X1), purpose=p)
CovSetData(X0, X1, p) ==
    /\ cov' = cov_set_data(cov, <<X0, X1>>, p)
    /\ last' = Caller
    /\ UNCHANGED <<mean, gp>>

\* cov.unset_data(purpose=p)
CovUnsetData(p) ==
    /\ CovBound(cov, p)
    /\ cov' = cov_unset_data(cov, p)
    /\ last' = Caller
    /\ UNCHANGED <<mean, gp>>

\* RegGP.__init__: stores the references
Construct(impl, y) ==
    /\ gp' = [impl |-> impl, y |-> ToVec(y), installed |-> FALSE]
    /\ last' = Call("construct", Ok(<<>>), 0, 0)
    /\ UNCHANGED <<mean, cov>>

\* gp.lml()
Lml ==
    /\ gp.impl # "none"
    /\ last' = Call("lml", LmlOf[gp.y, mean, cov], 0, 0)
    /\ UNCHANGED <<mean, cov, gp>>

\* gp.lml_gradient()
LmlGradient ==
    /\ gp.impl # "none"
    /\ last' = Call("lml_gradient", LmlGradientOf[gp.y, mean, cov], 0, 0)
    /\ UNCHANGED <<mean, cov, gp>>

\* the instance g has the attributes value and gradient: the class of
\* lim/inference defines them as methods, the class of lim/gp gets them
\* from learn()
has_objective(g) == g.impl = "inference" \/ g.installed

\* gp.value()
Value ==
    /\ gp.impl # "none"
    /\ last' = Call("value",
                    IF has_objective(gp) THEN value(gp.y, mean, cov)
                    ELSE Err("AttributeError"), 0, 0)
    /\ UNCHANGED <<mean, cov, gp>>

\* gp.gradient()
Gradient ==
    /\ gp.impl # "none"
    /\ last' = Call("gradient",
                    IF has_objective(gp) THEN gradient(gp.y, mean, cov)
                    ELSE Err("AttributeError"), 0, 0)
    /\ UNCHANGED <<mean, cov, gp>>

\* gp.learn()
Learn ==
    /\ gp.impl # "none"
    /\ gp' = [gp EXCEPT !.installed = (gp.impl = "gp")]
    /\ LET d == learn_dispatch(Len(variables(mean, cov)))
       IN  \/ /\ d = "none"
              /\ last' = Call("learn", Ok(<<>>), 0, 0)
              /\ UNCHANGED <<mean, cov>>
           \/ /\ d = "scalar"
              /\ \E o \in maximize_scalar(gp.y, mean, cov) :
                    /\ mean' = o.mean
                    /\ cov' = o.cov
                    /\ last' = Call("learn", o.res, 1, 0)
           \/ /\ d = "array"
              /\ \E o \in maximize_array(gp.y, mean, cov) :
                    /\ mean' = o.mean
                    /\ cov' = o.cov
                    /\ last' = Call("learn", o.res, 0, 1)

\* gp.predict()
Predict ==
    /\ gp.impl # "none"
    /\ LET r == PredictOf[gp.impl, gp.y, mean, cov]
       IN  /\ cov' = r.cov
           /\ last' = Call("predict", r.res, 0, 0)
    /\ UNCHANGED <<mean, gp>>

Next ==
    \/ \E v \in 0..MaxOffset : MeanAssign(v)
    \/ MeanFix
    \/ \E b \in MeanMenu : MeanSetData(b[1], b[2])
    \/ \E p \in UnsetMenu : MeanUnsetData(p)
    \/ \E v \in LinearScales : CovAssign(1, v)
    \/ \E v \in EyeScales : CovAssign(2, v)
    \/ \E k \in 1..2 : CovFix(k)
    \/ \E b \in CovMenu : CovSetData(b[1], b[2], b[3])
    \/ \E p \in UnsetMenu : CovUnsetData(p)
    \/ \E impl \in {"inference", "gp"}, y \in Ys : Construct(impl, y)
    \/ Lml
    \/ LmlGradient
    \/ Value
    \/ Gradient
    \/ Learn
    \/ Predict

Spec == Init /\ [][Next]_vars

----------------------------------------------------------------------------
(* Reference quantities the claims are stated against.  They are computed  *)
(* without numpy's solve: through the adjugate, and through exact central  *)
(* differences of the polynomials det K and (y-m)^T adj(K) (y-m).          *)

\* the number of free hyperparameters of the model
NFree == Len(select_free(mean.vars)) + Len(select_free(cov.vars))

NFreeMean == Len(select_free(mean.vars))

NFreeCov == Len(select_free(cov.vars))

\* the matrix A without row i and column j
MinorAt(A, i, j) ==
    [a \in 1..(NRows(A) - 1) |->
        [b \in 1..(NCols(A) - 1) |->
            A[IF a < i THEN a ELSE a + 1][IF b < j THEN b ELSE b + 1]]]

\* adj(A)[i][j] = (-1)^(i+j) * det(A without row j and column i)
Adj(A) ==
    [i \in 1..NRows(A) |->
        [j \in 1..NCols(A) |->
            LET d == Det(MinorAt(A, j, i))
            IN  IF (i + j) % 2 = 0 THEN d ELSE RNeg(d)]]

SetVar(obj, k, v) == [obj EXCEPT !.vars[k].value = v]

KLearn(c) == cov_value(c, "learn").val

\* y - m (a mean vector of length 1 stands for a constant mean, as numpy
\* broadcasts it)
Resid(y, m) == VecSub(y, mean_value(m, "learn").val).val

\* det K as a function of the hyperparameters
DetAt(c) == Det(KLearn(c))

\* P = (y-m)^T adj(K) (y-m), so that (y-m)^T K^-1 (y-m) = P / det K
PAt(y, m, c) ==
    LET r == Resid(y, m)
        A == Adj(KLearn(c))
    IN  RSum([i \in 1..Len(r) |->
                RSum([j \in 1..Len(r) |-> RMul(r[i], RMul(A[i][j], r[j]))])])

Half(p) == RDiv(p, R(2))

\* d lml / d (k-th covariance hyperparameter), from central differences of
\* det K (degree <= 2 in the hyperparameter for a 2x2 matrix) and of P
\* (degree <= 1), both exact at step 1:
\*   lml = -(log det K + P/det K + n log 2 pi)/2
DLmlCov(y, m, c, k) ==
    LET v    == c.vars[k].value
        d    == DetAt(c)
        P    == PAt(y, m, c)
        dDet == Half(RSub(DetAt(SetVar(c, k, v + 1)), DetAt(SetVar(c, k, v - 1))))
        dP   == Half(RSub(PAt(y, m, SetVar(c, k, v + 1)), PAt(y, m, SetVar(c, k, v - 1))))
        dQ   == RDiv(RSub(RMul(dP, d), RMul(P, dDet)), RMul(d, d))
    IN  RNeg(Half(RAdd(RDiv(dDet, d), dQ)))

\* d lml / d (k-th mean hyperparameter): P is quadratic in it, det K constant
DLmlMean(y, m, c, k) ==
    LET v  == m.vars[k].value
        dP == Half(RSub(PAt(y, SetVar(m, k, v + 1), c), PAt(y, SetVar(m, k, v - 1), c)))
    IN  RNeg(Half(RDiv(dP, DetAt(c))))

\* Kiym = K^-1 (y - m), through the adjugate
KiymRef(y, m, c) ==
    LET r == Resid(y, m)
        A == Adj(KLearn(c))
        d == DetAt(c)
    IN  [i \in 1..Len(r) |-> RDiv(RSum([j \in 1..Len(r) |-> RMul(A[i][j], r[j])]), d)]

\* K^-1, through the adjugate
InvRef(c) ==
    LET A == Adj(KLearn(c))
        d == DetAt(c)
    IN  [i \in 1..Len(A) |-> [j \in 1..Len(A) |-> RDiv(A[i][j], d)]]

\* dM_i . Kiym
MeanFormula(y, m, c, i) ==
    LET dM   == mean_gradient(m, "learn").val[i]
        kiym == KiymRef(y, m, c)
    IN  RSum([a \in 1..Len(dM) |-> RMul(dM[a], kiym[a])])

\* (1/2) ( -trace(K^-1 dK_j) + Kiym^T dK_j Kiym )
CovFormula(y, m, c, j) ==
    LET dK   == cov_gradient(c, "learn").val[j]
        Ki   == InvRef(c)
        kiym == KiymRef(y, m, c)
        n    == Len(kiym)
        tr   == RSum([a \in 1..n |-> RSum([b \in 1..n |-> RMul(Ki[a][b], dK[b][a])])])
        q    == RSum([a \in 1..n |->
                        RSum([b \in 1..n |-> RMul(kiym[a], RMul(dK[a][b], kiym[b]))])])
    IN  Half(RSub(q, tr))

\* the objects m and c with the data bound under 'learn' alone: all that
\* lml() and its derivatives depend on
LearnOnly(obj) ==
    [obj EXCEPT !.data = [p \in Purposes |-> IF p = "learn" THEN obj.data[p] ELSE Unbound]]

\* lml() is a differentiable function of the hyperparameters at (y, m, c)
LmlDefined(y, m, c) ==
    /\ MeanBound(m, "learn")
    /\ CovBound(c, "learn")
    /\ IsSquare(KLearn(c))
    /\ Broadcastable(y, mean_value(m, "learn").val)
    /\ BLen(y, mean_value(m, "learn").val) = NRows(KLearn(c))
    /\ DetAt(c) # R(0)

\* per instance: the partial derivatives of lml() for the free variables of
\* the covariance and of the mean, each in its declared order (dcov, dmean),
\* and the closed formulas for them (fcov, fmean)
GradientRef ==
    [y \in YVecs, m \in {LearnOnly(m) : m \in MeanObjects},
     c \in {LearnOnly(c) : c \in CovObjects} |->
        IF ~LmlDefined(y, m, c)
        THEN [dcov |-> <<>>, dmean |-> <<>>, fcov |-> <<>>, fmean |-> <<>>]
        ELSE [dcov  |-> [j \in 1..Len(select_free(c.vars)) |->
                           DLmlCov(y, m, c, FreeIndex(c.vars)[j])],
              dmean |-> [i \in 1..Len(select_free(m.vars)) |->
                           DLmlMean(y, m, c, FreeIndex(m.vars)[i])],
              fcov  |-> [j \in 1..Len(select_free(c.vars)) |-> CovFormula(y, m, c, j)],
              fmean |-> [i \in 1..Len(select_free(m.vars)) |-> MeanFormula(y, m, c, i)]]]

\* the reference quantities for the current instance
Ref == GradientRef[gp.y, LearnOnly(mean), LearnOnly(cov)]

CovPartials == Ref.dcov

MeanPartials == Ref.dmean

GradientReturned == last.op = "lml_gradient" /\ last.ok

----------------------------------------------------------------------------
(* C1 *)

----------------------------------------------------------------------------
(* C2 *)

RECURSIVE SeqOf(_)
\* the elements of a set of integers in increasing order
SeqOf(S) ==
    IF S = {} THEN <<>>
    ELSE LET x == CHOOSE x \in S : \A z \in S : x <= z
         IN  <<x>> \o SeqOf(S \ {x})

\* the principal submatrix of A on the rows and columns idx
Principal(A, idx) == [a \in 1..Len(idx) |-> [b \in 1..Len(idx) |-> A[idx[a]][idx[b]]]]

Symmetric(A) == IsSquare(A) /\ \A i, j \in 1..NRows(A) : A[i][j] = A[j][i]

\* a symmetric matrix has a negative eigenvalue exactly when it is not
\* positive semidefinite, that is, when some principal minor is negative
HasNegativeEigenvalue(A) ==
    \E S \in SUBSET (1..NRows(A)) :
        S # {} /\ RSgn(Det(Principal(A, SeqOf(S)))) < 0

\* C2: whenever the covariance bound under 'learn' is symmetric with at
\* least one negative eigenvalue, lml() fails and returns no value.
C2_NonPositiveDefiniteFails ==
    (/\ last.op = "lml"
     /\ CovBound(cov, "learn")
     /\ Symmetric(KLearn(cov))
     /\ HasNegativeEigenvalue(KLearn(cov)))
    => ~last.ok

----------------------------------------------------------------------------
(* C3 *)

\* C3: learn() dispatches on the number of free hyperparameters: with none
\* it invokes no maximizer, returns, and leaves the mean object, the
\* covariance object and the value of lml() as they were; with one it
\* invokes the scalar maximizer once and the array maximizer never; with two
\* or more the array maximizer once and the scalar maximizer never.
C3_LearnDispatch ==
    [][last'.op = "learn" =>
         /\ NFree = 0 =>
              /\ last'.scalar = 0 /\ last'.array = 0 /\ last'.ok
              /\ mean' = mean /\ cov' = cov
              /\ LmlOf[gp'.y, mean', cov'] = LmlOf[gp.y, mean, cov]
         /\ NFree = 1 => last'.scalar = 1 /\ last'.array = 0
         /\ NFree >= 2 => last'.scalar = 0 /\ last'.array = 1]_vars

\* learn() has returned on a model with exactly one free hyperparameter
C3_Witness ==
    /\ last.op = "learn"
    /\ last.ok
    /\ NFree = 1
    /\ last.scalar = 1

----------------------------------------------------------------------------
(* C4 *)

\* C4: a predict() that directly follows a predict() that returned returns
\* too, and returns the same vector.
C4_PredictTwice ==
    [][(last.op = "predict" /\ last.ok /\ last'.op = "predict") =>
         (last'.ok /\ last'.val = last.val)]_vars

\* the second of two predict() calls in a row has returned, on an instance
\* of the class that binds 'learn_predict' itself
C4_Witness ==
    /\ last.op = "predict"
    /\ last.ok
    /\ last.rep
    /\ gp.impl = "gp"

----------------------------------------------------------------------------
(* C5 *)

\* C5: a predict() that returns leaves the data bound under every purpose
\* of the mean and of the covariance as it was before the call.
C5_PredictKeepsBindings ==
    [][(last'.op = "predict" /\ last'.ok) =>
         (mean'.data = mean.data /\ cov'.data = cov.data)]_vars

----------------------------------------------------------------------------
(* C6 *)

PredictDataMissing ==
    \/ ~MeanBound(mean, "predict")
    \/ ~CovBound(cov, "predict")
    \/ ~CovBound(cov, "learn_predict")

\* C6: predict() called while no data is bound under 'predict' (mean or
\* covariance) or under 'learn_predict' (covariance) fails; it returns no
\* prediction.
C6_PredictNeedsBoundData ==
    [][(last'.op = "predict" /\ PredictDataMissing) => ~last'.ok]_vars

----------------------------------------------------------------------------
(* C7 *)

\* len(y), the length of the mean under 'learn' and the shape of the
\* covariance under 'learn' agree
DimensionsAgree(y, m, c) ==
    /\ MeanBound(m, "learn")
    /\ CovBound(c, "learn")
    /\ Len(mean_value(m, "learn").val) = Len(y)
    /\ NRows(KLearn(c)) = Len(y)
    /\ NCols(KLearn(c)) = Len(y)

\* C7: a RegGP instance exists only for y, mean and covariance whose
\* dimensions agree: construction with mismatched dimensions fails.
C7_ConstructChecksDimensions ==
    (last.op = "construct" /\ last.ok) => DimensionsAgree(gp.y, mean, cov)

----------------------------------------------------------------------------
(* C8 *)

\* m_predict + K_learn_predict^T Kiym, entry by entry, for the data bound
\* under 'predict' and 'learn_predict' in m and c
PredictRef(y, m, c) ==
    LET m_p  == mean_value(m, "predict").val
        K_lp == cov_value(c, "learn_predict").val
        kiym == KiymRef(y, m, c)
    IN  [i \in 1..Len(m_p) |->
            RAdd(m_p[i], RSum([a \in 1..Len(kiym) |-> RMul(K_lp[a][i], kiym[a])]))]

\* C8: a predict() that returns, called with a 'learn_predict' dataset bound
\* by the caller, returns m_predict + K_learn_predict^T Kiym for that
\* dataset, a vector as long as the mean under 'predict'.
C8_PredictFormula ==
    [][(last'.op = "predict" /\ last'.ok /\ CovBound(cov, "learn_predict")) =>
         /\ last'.val = PredictRef(gp.y, mean, cov)
         /\ Len(last'.val) = Len(mean_value(mean, "predict").val)]_vars

----------------------------------------------------------------------------
(* C10 *)

\* C10: every entry lml_gradient() returns for a free hyperparameter is the
\* partial derivative of lml() with respect to it: dM_i . Kiym for the i-th
\* free mean variable, (1/2)(-trace(K^-1 dK_j) + Kiym^T dK_j Kiym) for the
\* j-th free covariance variable, each equal to the exact central
\* difference quotient of lml().
C10_GradientIsDerivative ==
    GradientReturned =>
        /\ \A j \in 1..NFreeCov :
              /\ last.val[j] = Ref.fcov[j]
              /\ last.val[j] = Ref.dcov[j]
        /\ \A i \in 1..NFreeMean :
              /\ last.val[NFreeCov + i] = Ref.fmean[i]
              /\ last.val[NFreeCov + i] = Ref.dmean[i]

\* a gradient returned with every hyperparameter free and no entry zero
C10_Witness ==
    /\ GradientReturned
    /\ Len(last.val) = Len(mean.vars) + Len(cov.vars)
    /\ \A k \in 1..Len(last.val) : last.val[k] # R(0)

----------------------------------------------------------------------------
(* C11 *)

\* the variables of obj keep their names and fixed flags, and every fixed
\* one keeps its value, from obj to its successor new
FixedKept(obj, new) ==
    /\ Len(new.vars) = Len(obj.vars)
    /\ \A k \in 1..Len(obj.vars) :
          /\ new.vars[k].name = obj.vars[k].name
          /\ new.vars[k].fixed = obj.vars[k].fixed
          /\ obj.vars[k].fixed => new.vars[k].value = obj.vars[k].value

\* C11: every learn() call, the first or a repeated one, changes at most
\* the values of free hyperparameters: the observation vector y, the value
\* and the fixed flag of every fixed hyperparameter, the set of free
\* variables and the data bound under every purpose of the mean and of the
\* covariance are after the call what they were before it.
C11_LearnChangesFreeValuesOnly ==
    [][last'.op = "learn" =>
         /\ gp'.y = gp.y
         /\ gp'.impl = gp.impl
         /\ FixedKept(mean, mean')
         /\ FixedKept(cov, cov')
         /\ variables(mean', cov') = variables(mean, cov)
         /\ mean'.data = mean.data
         /\ cov'.data = cov.data]_vars

\* learn() has returned through the array maximizer on a model with a fixed
\* hyperparameter, and has left a free one at a value other than the one
\* the objects are created with
C11_Witness ==
    /\ last.op = "learn"
    /\ last.ok
    /\ last.array = 1
    /\ mean.vars[1].fixed
    /\ ~cov.vars[1].fixed
    /\ cov.vars[1].value = 0

----------------------------------------------------------------------------
(* C12 *)

\* what value() and gradient() return as a function of the observation
\* vector, the hyperparameters and the data bound under 'learn', and of
\* nothing else: lml() and lml_gradient() on objects that carry no other
\* data
ObjectiveRef ==
    [y \in YVecs, m \in {LearnOnly(m) : m \in MeanObjects},
     c \in {LearnOnly(c) : c \in CovObjects} |->
        [value |-> lml(y, m, c), gradient |-> lml_gradient(y, m, c)]]

\* the outcome recorded for a call against the outcome res
Returned(call, res) ==
    call.ok = res.ok /\ call.err = res.err /\ call.val = res.val

\* C12: every value() or gradient() call on an instance that has the
\* objective, whatever calls and hyperparameter assignments came before it,
\* leaves the hyperparameters, the bound data and the instance unchanged
\* and returns what the current hyperparameter values and the data bound
\* under 'learn' determine.
C12_ObjectiveHistoryIndependent ==
    [][(last'.op \in {"value", "gradient"} /\ has_objective(gp)) =>
         /\ mean' = mean
         /\ cov' = cov
         /\ gp' = gp
         /\ LET ref == ObjectiveRef[gp.y, LearnOnly(mean), LearnOnly(cov)]
            IN  /\ last'.op = "value" => Returned(last', ref.value)
                /\ last'.op = "gradient" => Returned(last', ref.gradient)]_vars

\* value() has returned on an instance of the class of lim/gp, after
\* learn() and with the offset at a value other than the one the mean is
\* created with, while data is bound under 'predict'
C12_Witness ==
    /\ last.op = "value"
    /\ last.ok
    /\ gp.impl = "gp"
    /\ gp.installed
    /\ mean.vars[1].value = 1
    /\ CovBound(cov, "predict")
====
